---- MODULE Spec2Model ----
(***************************************************************************)
(* Model of the SPFA iteration engine                                      *)
(* (crates/algorithms/src/shortest_paths/shortest_path_faster/iter.rs).    *)
(* The engine borrows a graph, is built by ShortestPathFasterIter::new and *)
(* is advanced by Iterator::next.  A panic of an advance (an Index lookup  *)
(* of a HashMap on a key that is absent) is the status "panicked"; an      *)
(* advance that never returns is the status "diverged".                    *)
(*                                                                         *)
(* Model of GraphMap (crates/graphmap/src/lib.rs): the node map with its   *)
(* adjacency lists and the edge map, both index maps that keep insertion   *)
(* order and remove by swapping with the last entry.  SpecMap runs its     *)
(* operations; the engine is idle there, as GraphMap is idle under Spec.   *)
(*                                                                         *)
(* Model of IteratorExt::collect_reports (crates/algorithms/src/           *)
(* polyfill.rs): the iterator of results it consumes item by item and the  *)
(* accumulator of its loop.  SpecCollect runs one call of it.              *)
(***************************************************************************)
EXTENDS Integers, Sequences, FiniteSets, TLC

\* ---- bounds -------------------------------------------------------------
MaxNodes == 2
MaxEdges == 2
MaxAdvances == 4
MaxCalls == 3
MaxItems == 3

\* ---- values -------------------------------------------------------------
NoNode == 0
NodeIds == 1..MaxNodes
Weights == {0 - 1, 0, 1}    \* a negative, the zero and a positive cost
EmptyMap == [x \in {} |-> 0]

Put(m, k, val) == [x \in (DOMAIN m) \cup {k} |-> IF x = k THEN val ELSE m[x]]

VARIABLES
    graph,            \* the borrowed graph: [nodes, edges, directed]
    reference,        \* the shortest distances of graph from each node (fixed at Init)
    status,           \* "unbuilt", "NodeNotFound", "built", "panicked", "diverged"
    queue,            \* ShortestPathFasterIter.queue
    source,           \* ShortestPathFasterIter.source
    num_nodes,        \* ShortestPathFasterIter.num_nodes
    init,             \* ShortestPathFasterIter.init
    next,             \* ShortestPathFasterIter.next (NoNode is None)
    intermediates,    \* ShortestPathFasterIter.intermediates
    candidate_order,  \* ShortestPathFasterIter.candidate_order
    distances,        \* ShortestPathFasterIter.distances
    predecessors,     \* ShortestPathFasterIter.predecessors
    ret,              \* what the last advance returned: "none", "Some", "None"
    routes,           \* the routes yielded so far, in order
    asked,            \* the source identifier new() was called with
    advances,         \* number of calls of next() so far
    nodes,            \* GraphMap.nodes: entries [k: node, v: list of <<node, direction>>]
    edges,            \* GraphMap.edges: entries [k: <<a, b>>, v: weight]
    ty,               \* GraphMap's Ty: "Directed" or "Undirected"
    call,             \* the last GraphMap operation: [op, a, b, w, ret]
    calls,            \* number of GraphMap operations so far
    items,            \* collect_reports: self, the items the iterator has still to give
    given,            \* collect_reports: the items of self when it was called
    state,            \* collect_reports: the accumulator, Ok(list) or Err(report)
    phase             \* collect_reports: "idle", "loop" or "returned"

vars == <<graph, reference, status, queue, source, num_nodes, init, next, intermediates,
          candidate_order, distances, predecessors, ret, routes, asked, advances,
          nodes, edges, ty, call, calls, items, given, state, phase>>

\* the state of the SPFA engine and of what it borrows
enginevars == <<graph, reference, status, queue, source, num_nodes, init, next, intermediates,
                candidate_order, distances, predecessors, ret, routes, asked, advances>>

\* the state of a GraphMap
mapvars == <<nodes, edges, ty, call, calls>>

\* the state of a call of collect_reports
reportvars == <<items, given, state, phase>>

\* Result: Ok(x) and Err(x)
Ok(x) == [ok |-> TRUE, v |-> x]
Err(x) == [ok |-> FALSE, v |-> x]

\* collect_reports was not called
NoReports ==
    /\ items = <<>>
    /\ given = <<>>
    /\ state = Ok(<<>>)
    /\ phase = "idle"

\* no GraphMap operation was called yet
NoCall == [op |-> "new", a |-> NoNode, b |-> NoNode, w |-> 0, ret |-> <<>>]

engine == <<queue, source, num_nodes, init, next, intermediates,
            candidate_order, distances, predecessors>>

\* ---- the graph ----------------------------------------------------------
Edge(a, b, c) == [u |-> a, v |-> b, w |-> c]

EdgesOver(N) == {Edge(a, b, c) : a \in N, b \in N, c \in Weights}

\* a graph with nodes 1..k and n <= MaxEdges edges, in any storage order
SmallGraph(g) ==
    \E k \in 0..MaxNodes, n \in 0..MaxEdges, d \in BOOLEAN :
        \E es \in [1..n -> EdgesOver(1..k)] :
            g = [nodes |-> 1..k, edges |-> es, directed |-> d]

\* the 4-node directed graph A=1, B=2, C=3, D=4 of the concrete scenario
ScenarioGraph ==
    [nodes |-> {1, 2, 3, 4},
     edges |-> <<Edge(1, 2, 1), Edge(1, 3, 4), Edge(2, 3, 1), Edge(3, 4, 1)>>,
     directed |-> TRUE]

\* Graph::node: resolve an identifier
GraphNode(id) == IF id \in graph.nodes THEN id ELSE NoNode

\* Graph::num_nodes
GraphNumNodes == Cardinality(graph.nodes)

\* Connections::connections: the edges seen from a node, in storage order
Connections(node) ==
    SelectSeq(graph.edges,
              LAMBDA e : IF graph.directed THEN e.u = node
                         ELSE e.u = node \/ e.v = node)

\* ---- the work queue ------------------------------------------------------
\* DoubleEndedQueue: push_back, pop_front (the popped node, then the rest)
PushBack(q, node) == Append(q, node)

PopFront(q) == IF q = <<>> THEN <<NoNode, <<>>>> ELSE <<Head(q), Tail(q)>>

\* ---- the reference tables of the graph ----------------------------------
\* The properties compare the engine with the shortest distances of the graph.
\* The graph never changes, so these distances are computed once, when the
\* graph is chosen, and kept in the auxiliary variable reference; no action
\* reads or writes it.
\* the directed steps the connections provider offers: <<from, to, weight>>
Arcs ==
    UNION {LET conns == Connections(n)
           IN {<<n, IF conns[i].v = n THEN conns[i].u ELSE conns[i].v, conns[i].w>> :
                  i \in 1..Len(conns)} : n \in graph.nodes}

SetMin(S) == CHOOSE x \in S : \A y \in S : x <= y

\* one Bellman-Ford round over the arcs, from the table d
Round(d, arcs) ==
    LET cand(t) == {d[a[1]] + a[3] : a \in {b \in arcs : b[1] \in DOMAIN d /\ b[2] = t}}
                   \cup (IF t \in DOMAIN d THEN {d[t]} ELSE {})
    IN [t \in {x \in graph.nodes : cand(x) # {}} |-> SetMin(cand(t))]

\* k Bellman-Ford rounds from the table d0 (each round is computed once)
RECURSIVE ShortestFrom(_, _)
ShortestFrom(d0, k) ==
    IF k = 0 THEN d0
    ELSE CHOOSE r \in {ShortestFrom(Round(d, arcs), k - 1) : d \in {d0}, arcs \in {Arcs}} : TRUE

ShortestTable(s) == ShortestFrom(Put(EmptyMap, s, 0), Cardinality(graph.nodes))

\* for every node s of the graph: the shortest distances from s after as many
\* rounds as there are nodes, and whether one more round still lowers one
\* (a negative-weight cycle is reachable from s)
ReferenceTables ==
    [s \in graph.nodes |->
        CHOOSE r \in {[dist |-> d, neg |-> ShortestFrom(d, 1) # d] :
                         d \in {ShortestTable(s)}} : TRUE]

\* ---- construction -------------------------------------------------------
Init ==
    /\ SmallGraph(graph) \/ graph = ScenarioGraph
    /\ reference = ReferenceTables
    /\ status = "unbuilt"
    /\ queue = <<>>
    /\ source = NoNode
    /\ num_nodes = 0
    /\ init = FALSE
    /\ next = NoNode
    /\ intermediates = "Discard"
    /\ candidate_order = "SmallFirst"
    /\ distances = EmptyMap
    /\ predecessors = EmptyMap
    /\ ret = "none"
    /\ routes = <<>>
    /\ asked = NoNode
    /\ advances = 0
    /\ nodes = <<>>
    /\ edges = <<>>
    /\ ty = "Directed"
    /\ call = NoCall
    /\ calls = 0
    /\ NoReports

\* new() without the lookup of the source: an engine is built for any identifier
NewUnchecked(src, im, ord) ==
    /\ status = "unbuilt"
    /\ status' = "built"
    /\ queue' = PushBack(<<>>, src)
    /\ distances' = Put(EmptyMap, src, 0)
    /\ predecessors' = IF im = "Record" THEN Put(EmptyMap, src, NoNode) ELSE EmptyMap
    /\ source' = src
    /\ num_nodes' = GraphNumNodes
    /\ init' = TRUE
    /\ next' = NoNode
    /\ intermediates' = im
    /\ candidate_order' = ord
    /\ asked' = src
    /\ UNCHANGED <<graph, reference, ret, routes, advances>>
    /\ UNCHANGED mapvars
    /\ UNCHANGED reportvars

\* a new() that seeds the ledger whatever the reconstruction flag
NewSeedsLedgerAlways(src, im, ord) ==
    /\ status = "unbuilt"
    /\ LET source_node == GraphNode(src)
       IN IF source_node = NoNode
          THEN /\ status' = "NodeNotFound"
               /\ UNCHANGED engine
          ELSE /\ status' = "built"
               /\ queue' = PushBack(<<>>, source_node)
               /\ distances' = Put(EmptyMap, src, 0)
               /\ predecessors' = Put(EmptyMap, src, NoNode)
               /\ source' = source_node
               /\ num_nodes' = GraphNumNodes
               /\ init' = TRUE
               /\ next' = NoNode
               /\ intermediates' = im
               /\ candidate_order' = ord
    /\ asked' = src
    /\ UNCHANGED <<graph, reference, ret, routes, advances>>
    /\ UNCHANGED mapvars
    /\ UNCHANGED reportvars

New(src, im, ord) ==
    /\ status = "unbuilt"
    /\ LET source_node == GraphNode(src)
       IN IF source_node = NoNode
          THEN /\ status' = "NodeNotFound"
               /\ UNCHANGED engine
          ELSE /\ status' = "built"
               /\ queue' = PushBack(<<>>, source_node)
               /\ distances' = Put(EmptyMap, src, 0)
               /\ predecessors' = IF im = "Record" THEN Put(EmptyMap, src, NoNode)
                                  ELSE EmptyMap
               /\ source' = source_node
               /\ num_nodes' = GraphNumNodes
               /\ init' = TRUE
               /\ next' = NoNode
               /\ intermediates' = im
               /\ candidate_order' = ord
    /\ asked' = src
    /\ UNCHANGED <<graph, reference, ret, routes, advances>>
    /\ UNCHANGED mapvars
    /\ UNCHANGED reportvars

\* ---- the path-reconstruction ledger -------------------------------------
\* reconstruct_intermediates: walk the predecessor links from the target to
\* the entry with no predecessor; the nodes strictly between the two, in
\* source-to-target order.  kind is "ok", "missing" (a node without a ledger
\* entry) or "loop" (the walk never reaches an entry with no predecessor).
RECURSIVE LedgerWalk(_, _, _, _)
LedgerWalk(pred, current, fuel, acc) ==
    IF current \notin DOMAIN pred THEN [kind |-> "missing", nodes |-> <<>>]
    ELSE IF pred[current] = NoNode THEN [kind |-> "ok", nodes |-> acc]
    ELSE IF fuel = 0 THEN [kind |-> "loop", nodes |-> <<>>]
    ELSE LET p == pred[current]
             atSource == p \in DOMAIN pred /\ pred[p] = NoNode
         IN LedgerWalk(pred, p, fuel - 1, IF atSource THEN acc ELSE <<p>> \o acc)

ReconstructIntermediates(pred, target) ==
    LedgerWalk(pred, target, Cardinality(DOMAIN pred) + 1, <<>>)

\* ---- advancing the sequence ---------------------------------------------
Route(src, tgt, mid, c) == [source |-> src, target |-> tgt, intermediates |-> mid, cost |-> c]

\* a first advance that takes the source off the work queue as it returns it
FirstAdvancePops ==
    /\ status = "built"
    /\ init
    /\ advances < MaxAdvances
    /\ init' = FALSE
    /\ next' = source
    /\ queue' = PopFront(queue)[2]
    /\ ret' = "Some"
    /\ routes' = Append(routes, Route(source, source, <<>>, 0))
    /\ advances' = advances + 1
    /\ UNCHANGED <<graph, reference, status, source, num_nodes, intermediates,
                   candidate_order, distances, predecessors, asked>>
    /\ UNCHANGED mapvars
    /\ UNCHANGED reportvars

\* the first advance: the source is returned at once, nothing is relaxed
FirstAdvance ==
    /\ status = "built"
    /\ init
    /\ advances < MaxAdvances
    /\ init' = FALSE
    /\ next' = source
    /\ ret' = "Some"
    /\ routes' = Append(routes, Route(source, source, <<>>, 0))
    /\ advances' = advances + 1
    /\ UNCHANGED <<graph, reference, status, queue, source, num_nodes, intermediates,
                   candidate_order, distances, predecessors, asked>>
    /\ UNCHANGED mapvars
    /\ UNCHANGED reportvars

\* a loop body that stores the candidate distance before comparing it, so the
\* distance of the target changes without its ledger entry
RelaxEdgeStoresFirst(edge, node, st) ==
    LET target == IF edge.v = node THEN edge.u ELSE edge.v
    IN IF node \notin DOMAIN st.distances \/ target \notin DOMAIN st.distances
       THEN [st EXCEPT !.panicked = TRUE]
       ELSE LET next_distance_cost == st.distances[node] + edge.w
                improves == next_distance_cost < st.distances[target]
            IN [distances |-> Put(st.distances, target, next_distance_cost),
                predecessors |-> IF improves /\ intermediates = "Record"
                                 THEN Put(st.predecessors, target, node)
                                 ELSE st.predecessors,
                queue |-> IF improves THEN PushBack(st.queue, target) ELSE st.queue,
                panicked |-> FALSE]

\* a loop body that records the predecessor whatever the reconstruction flag
RelaxEdgeAlwaysRecords(edge, node, st) ==
    LET target == IF edge.v = node THEN edge.u ELSE edge.v
    IN IF node \notin DOMAIN st.distances \/ target \notin DOMAIN st.distances
       THEN [st EXCEPT !.panicked = TRUE]
       ELSE LET next_distance_cost == st.distances[node] + edge.w
            IN IF next_distance_cost < st.distances[target]
               THEN [distances |-> Put(st.distances, target, next_distance_cost),
                     predecessors |-> Put(st.predecessors, target, node),
                     queue |-> PushBack(st.queue, target),
                     panicked |-> FALSE]
               ELSE st

\* a loop body whose LargeLast branch stores the candidate distance before the
\* comparison, so the policy changes the distance table
RelaxEdgeLargeLastStores(edge, node, st) ==
    LET target == IF edge.v = node THEN edge.u ELSE edge.v
    IN IF node \notin DOMAIN st.distances \/ target \notin DOMAIN st.distances
       THEN [st EXCEPT !.panicked = TRUE]
       ELSE LET next_distance_cost == st.distances[node] + edge.w
                improves == next_distance_cost < st.distances[target]
            IN [distances |-> IF improves \/ candidate_order = "LargeLast"
                              THEN Put(st.distances, target, next_distance_cost)
                              ELSE st.distances,
                predecessors |-> IF improves /\ intermediates = "Record"
                                 THEN Put(st.predecessors, target, node)
                                 ELSE st.predecessors,
                queue |-> IF improves THEN PushBack(st.queue, target) ELSE st.queue,
                panicked |-> FALSE]

\* a loop body that skips the connections that lead back to the node itself
RelaxEdgeSkipsSelfLoops(edge, node, st) ==
    LET target == IF edge.v = node THEN edge.u ELSE edge.v
    IN IF node \notin DOMAIN st.distances \/ target \notin DOMAIN st.distances
       THEN [st EXCEPT !.panicked = TRUE]
       ELSE LET next_distance_cost == st.distances[node] + edge.w
            IN IF target # node /\ next_distance_cost < st.distances[target]
               THEN [distances |-> Put(st.distances, target, next_distance_cost),
                     predecessors |-> IF intermediates = "Record"
                                      THEN Put(st.predecessors, target, node)
                                      ELSE st.predecessors,
                     queue |-> PushBack(st.queue, target),
                     panicked |-> FALSE]
               ELSE st

\* a loop body that takes the candidate when it is larger than the entry
RelaxEdgeTakesLarger(edge, node, st) ==
    LET target == IF edge.v = node THEN edge.u ELSE edge.v
    IN IF node \notin DOMAIN st.distances \/ target \notin DOMAIN st.distances
       THEN [st EXCEPT !.panicked = TRUE]
       ELSE LET next_distance_cost == st.distances[node] + edge.w
            IN IF next_distance_cost > st.distances[target]
               THEN [distances |-> Put(st.distances, target, next_distance_cost),
                     predecessors |-> IF intermediates = "Record"
                                      THEN Put(st.predecessors, target, node)
                                      ELSE st.predecessors,
                     queue |-> PushBack(st.queue, target),
                     panicked |-> FALSE]
               ELSE st

\* a loop body that also takes a candidate equal to the entry
RelaxEdgeNotStrict(edge, node, st) ==
    LET target == IF edge.v = node THEN edge.u ELSE edge.v
    IN IF node \notin DOMAIN st.distances \/ target \notin DOMAIN st.distances
       THEN [st EXCEPT !.panicked = TRUE]
       ELSE LET next_distance_cost == st.distances[node] + edge.w
            IN IF next_distance_cost <= st.distances[target]
               THEN [distances |-> Put(st.distances, target, next_distance_cost),
                     predecessors |-> IF intermediates = "Record"
                                      THEN Put(st.predecessors, target, node)
                                      ELSE st.predecessors,
                     queue |-> PushBack(st.queue, target),
                     panicked |-> FALSE]
               ELSE st

\* a loop body that improves the distance and leaves the ledger alone
RelaxEdgeForgetsLedger(edge, node, st) ==
    LET target == IF edge.v = node THEN edge.u ELSE edge.v
    IN IF node \notin DOMAIN st.distances \/ target \notin DOMAIN st.distances
       THEN [st EXCEPT !.panicked = TRUE]
       ELSE LET next_distance_cost == st.distances[node] + edge.w
            IN IF next_distance_cost < st.distances[target]
               THEN [distances |-> Put(st.distances, target, next_distance_cost),
                     predecessors |-> st.predecessors,
                     queue |-> PushBack(st.queue, target),
                     panicked |-> FALSE]
               ELSE st

\* a loop body that takes the edge cost off the distance of the current node
RelaxEdgeSubtractsCost(edge, node, st) ==
    LET target == IF edge.v = node THEN edge.u ELSE edge.v
    IN IF node \notin DOMAIN st.distances \/ target \notin DOMAIN st.distances
       THEN [st EXCEPT !.panicked = TRUE]
       ELSE LET next_distance_cost == st.distances[node] - edge.w
            IN IF next_distance_cost < st.distances[target]
               THEN [distances |-> Put(st.distances, target, next_distance_cost),
                     predecessors |-> IF intermediates = "Record"
                                      THEN Put(st.predecessors, target, node)
                                      ELSE st.predecessors,
                     queue |-> PushBack(st.queue, target),
                     panicked |-> FALSE]
               ELSE st

\* a loop body that drops the entry of the neighbor when the candidate is no
\* improvement
RelaxEdgeDropsEntry(edge, node, st) ==
    LET target == IF edge.v = node THEN edge.u ELSE edge.v
    IN IF node \notin DOMAIN st.distances \/ target \notin DOMAIN st.distances
       THEN [st EXCEPT !.panicked = TRUE]
       ELSE LET next_distance_cost == st.distances[node] + edge.w
            IN IF next_distance_cost < st.distances[target]
               THEN [distances |-> Put(st.distances, target, next_distance_cost),
                     predecessors |-> IF intermediates = "Record"
                                      THEN Put(st.predecessors, target, node)
                                      ELSE st.predecessors,
                     queue |-> PushBack(st.queue, target),
                     panicked |-> FALSE]
               ELSE [st EXCEPT !.distances =
                        [x \in (DOMAIN st.distances) \ {target} |-> st.distances[x]]]

\* a loop body that writes the ledger also when the candidate is rejected
RelaxEdgeRecordsOnReject(edge, node, st) ==
    LET target == IF edge.v = node THEN edge.u ELSE edge.v
    IN IF node \notin DOMAIN st.distances \/ target \notin DOMAIN st.distances
       THEN [st EXCEPT !.panicked = TRUE]
       ELSE LET next_distance_cost == st.distances[node] + edge.w
                recorded == IF intermediates = "Record"
                            THEN Put(st.predecessors, target, node)
                            ELSE st.predecessors
            IN IF next_distance_cost < st.distances[target]
               THEN [distances |-> Put(st.distances, target, next_distance_cost),
                     predecessors |-> recorded,
                     queue |-> PushBack(st.queue, target),
                     panicked |-> FALSE]
               ELSE [st EXCEPT !.predecessors = recorded]

\* the body of the loop over the connections of node, for one edge;
\* st is [distances, predecessors, queue, panicked]
RelaxEdge(edge, node, st) ==
    LET target == IF edge.v = node THEN edge.u ELSE edge.v
    IN IF node \notin DOMAIN st.distances \/ target \notin DOMAIN st.distances
       THEN [st EXCEPT !.panicked = TRUE]
       ELSE LET next_distance_cost == st.distances[node] + edge.w
            IN IF next_distance_cost < st.distances[target]
               THEN [distances |-> Put(st.distances, target, next_distance_cost),
                     predecessors |-> IF intermediates = "Record"
                                      THEN Put(st.predecessors, target, node)
                                      ELSE st.predecessors,
                     queue |-> PushBack(st.queue, target),
                     panicked |-> FALSE]
               ELSE st

RECURSIVE RelaxAll(_, _, _)
RelaxAll(conns, node, st) ==
    IF conns = <<>> \/ st.panicked THEN st
    ELSE RelaxAll(Tail(conns), node, RelaxEdge(Head(conns), node, st))

\* the end of an advance: pop the front of the queue and build its route;
\* kind is "None", "Some", "panicked" or "diverged"
PopRoute(st) ==
    IF PopFront(st.queue)[1] = NoNode
    THEN [kind |-> "None", node |-> NoNode, route |-> <<>>]
    ELSE LET node == PopFront(st.queue)[1]
             walk == IF intermediates = "Discard" THEN [kind |-> "ok", nodes |-> <<>>]
                     ELSE ReconstructIntermediates(st.predecessors, node)
         IN IF node \notin DOMAIN st.distances \/ walk.kind = "missing"
            THEN [kind |-> "panicked", node |-> node, route |-> <<>>]
            ELSE IF walk.kind = "loop"
            THEN [kind |-> "diverged", node |-> node, route |-> <<>>]
            ELSE [kind |-> "Some", node |-> node,
                  route |-> <<Route(source, node, walk.nodes, st.distances[node])>>]

\* an advance that queues the source again when the sequence has ended
AdvanceRestarts ==
    /\ status = "built"
    /\ ~init
    /\ advances < MaxAdvances
    /\ advances' = advances + 1
    /\ IF next = NoNode
       THEN /\ ret' = "None"
            /\ queue' = PushBack(queue, source)
            /\ UNCHANGED <<status, next, distances, predecessors, routes>>
       ELSE LET st == RelaxAll(Connections(next), next,
                               [distances |-> distances, predecessors |-> predecessors,
                                queue |-> queue, panicked |-> FALSE])
                pop == PopRoute(st)
            IN /\ distances' = st.distances
               /\ predecessors' = st.predecessors
               /\ IF st.panicked
                  THEN /\ status' = "panicked"
                       /\ UNCHANGED <<queue, next, ret, routes>>
                  ELSE /\ queue' = PopFront(st.queue)[2]
                       /\ status' = IF pop.kind \in {"panicked", "diverged"}
                                    THEN pop.kind ELSE status
                       /\ next' = pop.node
                       /\ ret' = IF pop.kind \in {"Some", "None"} THEN pop.kind ELSE ret
                       /\ routes' = routes \o pop.route
    /\ UNCHANGED <<graph, reference, source, num_nodes, init, intermediates, candidate_order, asked>>
    /\ UNCHANGED mapvars
    /\ UNCHANGED reportvars

\* every advance after the first
Advance ==
    /\ status = "built"
    /\ ~init
    /\ advances < MaxAdvances
    /\ advances' = advances + 1
    /\ IF next = NoNode
       THEN /\ ret' = "None"
            /\ UNCHANGED <<status, queue, next, distances, predecessors, routes>>
       ELSE LET st == RelaxAll(Connections(next), next,
                               [distances |-> distances, predecessors |-> predecessors,
                                queue |-> queue, panicked |-> FALSE])
                pop == PopRoute(st)
            IN /\ distances' = st.distances
               /\ predecessors' = st.predecessors
               /\ IF st.panicked
                  THEN /\ status' = "panicked"
                       /\ UNCHANGED <<queue, next, ret, routes>>
                  ELSE /\ queue' = PopFront(st.queue)[2]
                       /\ status' = IF pop.kind \in {"panicked", "diverged"}
                                    THEN pop.kind ELSE status
                       /\ next' = pop.node
                       /\ ret' = IF pop.kind \in {"Some", "None"} THEN pop.kind ELSE ret
                       /\ routes' = routes \o pop.route
    /\ UNCHANGED <<graph, reference, source, num_nodes, init, intermediates, candidate_order, asked>>
    /\ UNCHANGED mapvars
    /\ UNCHANGED reportvars

\* Iterator::size_hint
SizeHint == <<0, num_nodes>>

Next ==
    \/ \E src \in NodeIds, im \in {"Record", "Discard"},
          ord \in {"SmallFirst", "LargeLast"} : New(src, im, ord)
    \/ FirstAdvance
    \/ Advance

Spec == Init /\ [][Next]_vars

\* the caller keeps advancing: a call of new() or next() that can be made is made
FairSpec == Spec /\ WF_vars(Next)

\* ---- GraphMap: the index maps ------------------------------------------
\* IndexMap: the position of a key, 0 when the key is absent
IdxPos(m, key) ==
    IF \E i \in 1..Len(m) : m[i].k = key
    THEN CHOOSE i \in 1..Len(m) : m[i].k = key
    ELSE 0

IdxHas(m, key) == IdxPos(m, key) # 0

\* IndexMap::get on a key that is present
IdxGet(m, key) == m[IdxPos(m, key)].v

\* IndexMap::insert: the value is replaced in place, a new key goes last
IdxInsert(m, key, val) ==
    IF IdxHas(m, key) THEN [m EXCEPT ![IdxPos(m, key)].v = val]
    ELSE Append(m, [k |-> key, v |-> val])

\* Vec::swap_remove and IndexMap::swap_remove by position: the last entry
\* takes the place of the removed one
SwapRemoveAt(m, i) ==
    LET last == Len(m)
    IN [j \in 1..(last - 1) |-> IF j = i THEN m[last] ELSE m[j]]

IdxSwapRemove(m, key) == IF IdxHas(m, key) THEN SwapRemoveAt(m, IdxPos(m, key)) ELSE m

\* Direction::reverse
Reverse(dir) == IF dir = "Outgoing" THEN "Incoming" ELSE "Outgoing"

\* the edge weights E the operations are called with
EdgeWeights == {1, 2}

\* Option: None and Some(x)
None == <<>>
Some(x) == <<x>>

\* ---- GraphMap: queries --------------------------------------------------
IsDirected == ty = "Directed"

\* a mapping of the node pair to the canonical edge id that ignores the
\* natural order of an undirected pair
EdgeKeyAsGiven(a, b) == <<a, b>>

EdgeKey(a, b) == IF IsDirected \/ a <= b THEN <<a, b>> ELSE <<b, a>>

NodeCount == Len(nodes)

EdgeCount == Len(edges)

ContainsNode(n) == IdxHas(nodes, n)

ContainsEdge(a, b) == IdxHas(edges, EdgeKey(a, b))

EdgeWeight(a, b) ==
    IF IdxHas(edges, EdgeKey(a, b)) THEN Some(IdxGet(edges, EdgeKey(a, b))) ELSE None

\* the nodes of a list of <<node, direction>> pairs, in order
RECURSIVE ListNodes(_)
ListNodes(list) == IF list = <<>> THEN <<>> ELSE <<Head(list)[1]>> \o ListNodes(Tail(list))

\* neighbors() without the filter on the direction
NeighborsUnfiltered(a) ==
    ListNodes(IF ContainsNode(a) THEN IdxGet(nodes, a) ELSE <<>>)

\* neighbors(a), run to its end: the nodes it yields, in order
Neighbors(a) ==
    LET neigh == IF ContainsNode(a) THEN IdxGet(nodes, a) ELSE <<>>
    IN IF IsDirected
       THEN ListNodes(SelectSeq(neigh, LAMBDA elt : elt[2] = "Outgoing"))
       ELSE ListNodes(neigh)

\* ---- GraphMap: operations -----------------------------------------------
\* remove_single_edge on the node map ns: [nodes, found]
RemoveSingleEdge(ns, a, b, dir) ==
    IF ~IdxHas(ns, a) THEN [nodes |-> ns, found |-> FALSE]
    ELSE LET sus == IdxGet(ns, a)
             hit(elt) == IF IsDirected THEN elt = <<b, dir>> ELSE elt[1] = b
         IN IF \E i \in 1..Len(sus) : hit(sus[i])
            THEN LET index == CHOOSE i \in 1..Len(sus) :
                                  hit(sus[i]) /\ \A j \in 1..(i - 1) : ~hit(sus[j])
                 IN [nodes |-> IdxInsert(ns, a, SwapRemoveAt(sus, index)), found |-> TRUE]
            ELSE [nodes |-> ns, found |-> FALSE]

Called(name, x, y, weight, result) ==
    [op |-> name, a |-> x, b |-> y, w |-> weight, ret |-> result]

Clear ==
    /\ calls < MaxCalls
    /\ nodes' = <<>>
    /\ edges' = <<>>
    /\ call' = Called("clear", NoNode, NoNode, 0, None)
    /\ calls' = calls + 1
    /\ UNCHANGED ty
    /\ UNCHANGED enginevars
    /\ UNCHANGED reportvars

AddNode(n) ==
    /\ calls < MaxCalls
    /\ nodes' = IF ContainsNode(n) THEN nodes ELSE Append(nodes, [k |-> n, v |-> <<>>])
    /\ call' = Called("add_node", n, NoNode, 0, Some(n))
    /\ calls' = calls + 1
    /\ UNCHANGED <<edges, ty>>
    /\ UNCHANGED enginevars
    /\ UNCHANGED reportvars

\* the loop of remove_node over the links of the removed node n;
\* st is [nodes, edges]
RECURSIVE RemoveLinks(_, _, _)
RemoveLinks(links, n, st) ==
    IF links = <<>> THEN st
    ELSE LET succ == Head(links)[1]
             dir == Head(links)[2]
             edge == IF dir = "Outgoing" THEN EdgeKey(n, succ) ELSE EdgeKey(succ, n)
         IN RemoveLinks(Tail(links), n,
                [nodes |-> RemoveSingleEdge(st.nodes, succ, n, Reverse(dir)).nodes,
                 edges |-> IdxSwapRemove(st.edges, edge)])

\* a remove_node whose loop takes every link for an outgoing one
RECURSIVE RemoveLinksAsOutgoing(_, _, _)
RemoveLinksAsOutgoing(links, n, st) ==
    IF links = <<>> THEN st
    ELSE LET succ == Head(links)[1]
             dir == Head(links)[2]
             edge == EdgeKey(n, succ)
         IN RemoveLinksAsOutgoing(Tail(links), n,
                [nodes |-> RemoveSingleEdge(st.nodes, succ, n, Reverse(dir)).nodes,
                 edges |-> IdxSwapRemove(st.edges, edge)])

RemoveNodeAsOutgoing(n) ==
    /\ calls < MaxCalls
    /\ IF ~ContainsNode(n)
       THEN /\ call' = Called("remove_node", n, NoNode, 0, FALSE)
            /\ UNCHANGED <<nodes, edges>>
       ELSE LET links == IdxGet(nodes, n)
                st == RemoveLinksAsOutgoing(links, n,
                          [nodes |-> IdxSwapRemove(nodes, n), edges |-> edges])
            IN /\ nodes' = st.nodes
               /\ edges' = st.edges
               /\ call' = Called("remove_node", n, NoNode, 0, TRUE)
    /\ calls' = calls + 1
    /\ UNCHANGED ty
    /\ UNCHANGED enginevars
    /\ UNCHANGED reportvars

\* a remove_node that takes the links out of the adjacency lists and leaves
\* the edge values in the edge map
RECURSIVE RemoveLinksKeepsEdges(_, _, _)
RemoveLinksKeepsEdges(links, n, st) ==
    IF links = <<>> THEN st
    ELSE LET succ == Head(links)[1]
             dir == Head(links)[2]
         IN RemoveLinksKeepsEdges(Tail(links), n,
                [nodes |-> RemoveSingleEdge(st.nodes, succ, n, Reverse(dir)).nodes,
                 edges |-> st.edges])

RemoveNodeKeepsEdges(n) ==
    /\ calls < MaxCalls
    /\ IF ~ContainsNode(n)
       THEN /\ call' = Called("remove_node", n, NoNode, 0, FALSE)
            /\ UNCHANGED <<nodes, edges>>
       ELSE LET links == IdxGet(nodes, n)
                st == RemoveLinksKeepsEdges(links, n,
                          [nodes |-> IdxSwapRemove(nodes, n), edges |-> edges])
            IN /\ nodes' = st.nodes
               /\ edges' = st.edges
               /\ call' = Called("remove_node", n, NoNode, 0, TRUE)
    /\ calls' = calls + 1
    /\ UNCHANGED ty
    /\ UNCHANGED enginevars
    /\ UNCHANGED reportvars

RemoveNode(n) ==
    /\ calls < MaxCalls
    /\ IF ~ContainsNode(n)
       THEN /\ call' = Called("remove_node", n, NoNode, 0, FALSE)
            /\ UNCHANGED <<nodes, edges>>
       ELSE LET links == IdxGet(nodes, n)
                st == RemoveLinks(links, n,
                          [nodes |-> IdxSwapRemove(nodes, n), edges |-> edges])
            IN /\ nodes' = st.nodes
               /\ edges' = st.edges
               /\ call' = Called("remove_node", n, NoNode, 0, TRUE)
    /\ calls' = calls + 1
    /\ UNCHANGED ty
    /\ UNCHANGED enginevars
    /\ UNCHANGED reportvars

\* nodes.entry(n).or_insert_with(..).push(elt)
PushLink(ns, n, elt) ==
    IF IdxHas(ns, n) THEN IdxInsert(ns, n, Append(IdxGet(ns, n), elt))
    ELSE Append(ns, [k |-> n, v |-> <<elt>>])

\* an add_edge that extends the adjacency lists also when the edge was there
AddEdgeAlwaysLinks(a, b, weight) ==
    /\ calls < MaxCalls
    /\ ContainsEdge(a, b) \/ EdgeCount < MaxEdges
    /\ edges' = IdxInsert(edges, EdgeKey(a, b), weight)
    /\ nodes' = LET withA == PushLink(nodes, a, <<b, "Outgoing">>)
                IN IF a # b THEN PushLink(withA, b, <<a, "Incoming">>) ELSE withA
    /\ call' = Called("add_edge", a, b, weight, EdgeWeight(a, b))
    /\ calls' = calls + 1
    /\ UNCHANGED ty
    /\ UNCHANGED enginevars
    /\ UNCHANGED reportvars

AddEdge(a, b, weight) ==
    /\ calls < MaxCalls
    /\ ContainsEdge(a, b) \/ EdgeCount < MaxEdges
    /\ edges' = IdxInsert(edges, EdgeKey(a, b), weight)
    /\ IF ContainsEdge(a, b)
       THEN /\ nodes' = nodes
            /\ call' = Called("add_edge", a, b, weight, EdgeWeight(a, b))
       ELSE /\ nodes' = LET withA == PushLink(nodes, a, <<b, "Outgoing">>)
                        IN IF a # b THEN PushLink(withA, b, <<a, "Incoming">>) ELSE withA
            /\ call' = Called("add_edge", a, b, weight, None)
    /\ calls' = calls + 1
    /\ UNCHANGED ty
    /\ UNCHANGED enginevars
    /\ UNCHANGED reportvars

\* a remove_edge that looks the weight up under the pair as given
RemoveEdgeKeyAsGiven(a, b) ==
    /\ calls < MaxCalls
    /\ LET first == RemoveSingleEdge(nodes, a, b, "Outgoing")
           second == IF a # b THEN RemoveSingleEdge(first.nodes, b, a, "Incoming") ELSE first
       IN /\ nodes' = second.nodes
          /\ edges' = IdxSwapRemove(edges, EdgeKeyAsGiven(a, b))
          /\ call' = Called("remove_edge", a, b, 0,
                            IF IdxHas(edges, EdgeKeyAsGiven(a, b))
                            THEN Some(IdxGet(edges, EdgeKeyAsGiven(a, b))) ELSE None)
          /\ calls' = calls + 1
          /\ UNCHANGED ty
          /\ UNCHANGED enginevars
          /\ UNCHANGED reportvars

RemoveEdge(a, b) ==
    /\ calls < MaxCalls
    /\ LET first == RemoveSingleEdge(nodes, a, b, "Outgoing")
           second == IF a # b THEN RemoveSingleEdge(first.nodes, b, a, "Incoming") ELSE first
       IN /\ nodes' = second.nodes
          /\ edges' = IdxSwapRemove(edges, EdgeKey(a, b))
          /\ call' = Called("remove_edge", a, b, 0, EdgeWeight(a, b))
          /\ calls' = calls + 1
          /\ UNCHANGED ty
          /\ UNCHANGED enginevars
          /\ UNCHANGED reportvars

\* GraphMap::new, with the engine idle
MapInit ==
    /\ graph = [nodes |-> {}, edges |-> <<>>, directed |-> TRUE]
    /\ reference = ReferenceTables
    /\ status = "unbuilt"
    /\ queue = <<>>
    /\ source = NoNode
    /\ num_nodes = 0
    /\ init = FALSE
    /\ next = NoNode
    /\ intermediates = "Discard"
    /\ candidate_order = "SmallFirst"
    /\ distances = EmptyMap
    /\ predecessors = EmptyMap
    /\ ret = "none"
    /\ routes = <<>>
    /\ asked = NoNode
    /\ advances = 0
    /\ nodes = <<>>
    /\ edges = <<>>
    /\ ty \in {"Directed", "Undirected"}
    /\ call = NoCall
    /\ calls = 0
    /\ NoReports

MapNext ==
    \/ Clear
    \/ \E n \in NodeIds : AddNode(n)
    \/ \E n \in NodeIds : RemoveNode(n)
    \/ \E a \in NodeIds, b \in NodeIds, weight \in EdgeWeights : AddEdge(a, b, weight)
    \/ \E a \in NodeIds, b \in NodeIds : RemoveEdge(a, b)

SpecMap == MapInit /\ [][MapNext]_vars

\* ---- reference notions used by the properties ---------------------------
Constructed == status \in {"built", "panicked", "diverged"}

\* the sequence is over: it ended, or the advance aborted or never returns
SequenceOver == ret = "None" \/ status \in {"panicked", "diverged"}

RECURSIVE Closure(_, _)
Closure(S, k) ==
    IF k = 0 THEN S
    ELSE Closure(S \cup {a[2] : a \in {b \in Arcs : b[1] \in S}}, k - 1)

Reachable(s) == Closure({s}, Cardinality(graph.nodes))

Connected ==
    LET Sym(S) == S \cup {a[2] : a \in {b \in Arcs : b[1] \in S}}
                    \cup {a[1] : a \in {b \in Arcs : b[2] \in S}}
        F[k \in 0..Cardinality(graph.nodes)] ==
            IF k = 0 THEN {source} ELSE Sym(F[k - 1])
    IN F[Cardinality(graph.nodes)] = graph.nodes

NonNegative == \A i \in 1..Len(graph.edges) : graph.edges[i].w >= 0

\* the shortest distances from s, read from the tables fixed at Init
ShortestDist(s) == IF s \in DOMAIN reference THEN reference[s].dist ELSE ShortestTable(s)

RoutesTo(t) == {i \in 1..Len(routes) : routes[i].target = t}

LastRouteTo(t) == routes[CHOOSE i \in RoutesTo(t) : \A j \in RoutesTo(t) : j <= i]

\* the node sequence of a route: source, intermediates..., target
PathNodes(r) ==
    IF r.target = r.source /\ r.intermediates = <<>> THEN <<r.source>>
    ELSE <<r.source>> \o r.intermediates \o <<r.target>>

\* the total costs of the edge sequences that follow the node sequence p
RECURSIVE PathCosts(_)
PathCosts(p) ==
    IF Len(p) <= 1 THEN {0}
    ELSE {a[3] + c : a \in {b \in Arcs : b[1] = p[1] /\ b[2] = p[2]}, c \in PathCosts(Tail(p))}

\* ---- properties ---------------------------------------------------------

\* C1: on a graph with non-negative weights, once the sequence is over every
\* node reachable from the source has been yielded and the cost of its last
\* route is the minimum total weight of a path from the source to it.
C1_FinalCostIsShortest ==
    (Constructed /\ NonNegative /\ SequenceOver) =>
        \A t \in Reachable(source) :
            /\ RoutesTo(t) # {}
            /\ LastRouteTo(t).cost = ShortestDist(source)[t]

\* C2: the first advance yields the route (source, source) with cost zero and
\* no intermediates, and leaves the distance table, the ledger and the work
\* queue as construction left them.
C2_FirstRouteIsTrivial ==
    [][(status = "built" /\ init /\ advances' = advances + 1) =>
          /\ ret' = "Some"
          /\ routes' = <<Route(source, source, <<>>, 0)>>
          /\ distances' = distances
          /\ predecessors' = predecessors
          /\ queue' = queue]_vars

C2_Witness == advances = 1 /\ ret = "Some" /\ Len(routes) = 1 /\ queue = <<source>>

\* C3: new() with a source that does not resolve fails with NodeNotFound and
\* produces no queue, distance table or ledger; with a source that resolves
\* it succeeds.
C3_NodeNotFound ==
    /\ (asked # NoNode /\ asked \notin graph.nodes) =>
            /\ status = "NodeNotFound"
            /\ queue = <<>> /\ distances = EmptyMap /\ predecessors = EmptyMap
            /\ source = NoNode /\ routes = <<>>
    /\ (asked # NoNode /\ asked \in graph.nodes) => (Constructed /\ source = asked)

C3_Witness == status = "NodeNotFound" /\ asked \notin graph.nodes /\ graph.nodes # {}

\* C4: after a successful construction no advance aborts: every lookup of an
\* advance finds its entry.
C4_NoAdvanceFails == status # "panicked"

\* C5: the number of routes yielded never exceeds the upper bound of
\* size_hint, the node count of the graph.
C5_AtMostNodeCountRoutes == Constructed => Len(routes) <= SizeHint[2]

\* C6: on a connected graph, when the sequence has ended the number of routes
\* yielded is the number of nodes reachable from the source.
C6_RoutesEqualReachable ==
    (Constructed /\ Connected /\ ret = "None") =>
        Len(routes) = Cardinality(Reachable(source))

\* C7: on a single-node graph without edges exactly one route is yielded, the
\* route (source, source) of cost zero, and the second advance ends the
\* sequence.
C7_SingleNode ==
    (Constructed /\ Cardinality(graph.nodes) = 1 /\ graph.edges = <<>>) =>
        /\ routes \in {<<>>, <<Route(source, source, <<>>, 0)>>}
        /\ (advances >= 2 => ret = "None")

\* C8: with Record, the node sequence source, intermediates..., target of every
\* yielded route follows edges of the graph whose costs sum to the cost of the
\* route.
C8_RecordedPathCost ==
    (Constructed /\ intermediates = "Record") =>
        \A i \in 1..Len(routes) : routes[i].cost \in PathCosts(PathNodes(routes[i]))

C8_Witness ==
    /\ Constructed /\ intermediates = "Record"
    /\ Len(routes) >= 2 /\ ret = "Some"
    /\ Len(Connections(source)) > 0

\* C9: with Discard, every yielded route has no intermediates and the ledger
\* stays empty.
C9_DiscardKeepsNothing ==
    (Constructed /\ intermediates = "Discard") =>
        /\ predecessors = EmptyMap
        /\ \A i \in 1..Len(routes) : routes[i].intermediates = <<>>

C9_Witness ==
    /\ Constructed /\ intermediates = "Discard"
    /\ Len(routes) >= 2 /\ ret = "Some"
    /\ distances[source] < 0

\* C10: on the 4-node scenario graph from source A the engine runs to the end
\* of the sequence, the last routes carry A=0, B=1, C=2, D=3 and, with Record,
\* the last route to D has the intermediates B, C.
C10_Scenario ==
    (Constructed /\ graph = ScenarioGraph /\ source = 1) =>
        /\ status = "built"
        /\ ret = "None" =>
              /\ \A t \in 1..4 : RoutesTo(t) # {} /\ LastRouteTo(t).cost = t - 1
              /\ intermediates = "Record" => LastRouteTo(4).intermediates = <<2, 3>>

\* a negative-weight cycle can be reached from the source: one more round of
\* Bellman-Ford still lowers a distance
NegativeCycleReachable == reference[source].neg

\* C11: under SmallFirst, when the (only) connection of the current node
\* improves its neighbor and the new distance is smaller than the distance of
\* the node at the front of the work queue, the neighbor goes to the front of
\* the queue and is the node this advance pops and yields.
C11_SmallFirstGoesToFront ==
    [][(/\ status = "built" /\ ~init /\ next # NoNode
        /\ advances' = advances + 1
        /\ candidate_order = "SmallFirst"
        /\ Len(Connections(next)) = 1
        /\ queue # <<>> /\ Head(queue) \in DOMAIN distances
        /\ LET e == Connections(next)[1]
               t == IF e.v = next THEN e.u ELSE e.v
               candidate == distances[next] + e.w
           IN /\ t \notin DOMAIN distances \/ candidate < distances[t]
              /\ candidate < distances[Head(queue)])
       => LET e == Connections(next)[1]
              t == IF e.v = next THEN e.u ELSE e.v
          IN status' = "built" /\ ret' = "Some" /\ next' = t]_vars

\* C12: on a graph without a reachable negative-weight cycle the distance
\* table at the end of the sequence is the table of shortest distances, which
\* does not depend on the ordering policy: a SmallFirst run and a LargeLast
\* run end with the same distances.
C12_PolicyIndependentDistances ==
    (Constructed /\ ret = "None" /\ ~NegativeCycleReachable) =>
        distances = ShortestDist(source)

C12_Witness ==
    /\ Constructed /\ ~NegativeCycleReachable /\ ret = "None"
    /\ candidate_order = "LargeLast"
    /\ Len(Connections(source)) > 0

\* C14: on a graph without a reachable negative-weight cycle, repeated
\* advancing leads to an advance that finds the work queue empty and ends the
\* sequence.
C14_SequenceEnds ==
    (Constructed /\ ~NegativeCycleReachable) ~> (ret = "None")

NodeSet == {nodes[i].k : i \in 1..Len(nodes)}

\* the keys of the edge map
EdgeSet == {edges[i].k : i \in 1..Len(edges)}

\* C16: add_edge(a, b, w) on an absent edge returns None, makes a and b nodes
\* (adding nothing else) and raises edge_count by one; on a present edge it
\* returns the old weight, stores w and leaves the nodes, every adjacency list
\* and edge_count as they were. No edge key is ever stored twice.
C16_AddEdge ==
    /\ [](\A i, j \in 1..Len(edges) : edges[i].k = edges[j].k => i = j)
    /\ [][\A a, b \in NodeIds :
            (call'.op = "add_edge" /\ call'.a = a /\ call'.b = b) =>
                /\ EdgeWeight(a, b)' = Some(call'.w)
                /\ IF ContainsEdge(a, b)
                   THEN /\ call'.ret = EdgeWeight(a, b)
                        /\ nodes' = nodes
                        /\ EdgeCount' = EdgeCount
                        /\ EdgeSet' = EdgeSet
                   ELSE /\ call'.ret = None
                        /\ NodeSet' = NodeSet \cup {a, b}
                        /\ EdgeCount' = EdgeCount + 1
                        /\ EdgeSet' = EdgeSet \cup {EdgeKey(a, b)}]_vars

\* add_edge(2, 1, 2) has just replaced the weight 1 of the undirected edge 1-2
C16_Witness ==
    /\ ty = "Undirected"
    /\ call.op = "add_edge" /\ call.a = 2 /\ call.b = 1
    /\ call.w = 2 /\ call.ret = Some(1)
    /\ EdgeCount = 1 /\ NodeCount = 2
    /\ EdgeWeight(1, 2) = Some(2)

\* C17: remove_edge(a, b) on a present edge returns its weight; afterwards
\* the edge is gone, edge_count is one less, no other edge is touched and both
\* endpoints are still nodes. On an absent edge it returns None and the nodes,
\* the adjacency lists and the edge map are as they were.
C17_RemoveEdge ==
    [][\A a, b \in NodeIds :
        (call'.op = "remove_edge" /\ call'.a = a /\ call'.b = b) =>
            IF ContainsEdge(a, b)
            THEN /\ call'.ret = EdgeWeight(a, b)
                 /\ call'.ret # None
                 /\ ~ContainsEdge(a, b)'
                 /\ EdgeCount' = EdgeCount - 1
                 /\ EdgeSet' = EdgeSet \ {EdgeKey(a, b)}
                 /\ NodeSet' = NodeSet
                 /\ ContainsNode(a)' /\ ContainsNode(b)'
            ELSE /\ call'.ret = None
                 /\ nodes' = nodes
                 /\ edges' = edges]_vars

\* remove_edge(2, 1) has just removed the undirected edge 1-2 of weight 2,
\* and another edge is left
C17_Witness ==
    /\ ty = "Undirected"
    /\ call.op = "remove_edge" /\ call.a = 2 /\ call.b = 1
    /\ call.ret = Some(2)
    /\ EdgeCount = 1
    /\ ContainsNode(1) /\ ContainsNode(2) /\ ~ContainsEdge(1, 2)

\* C18: in an undirected map the edge between a and b is the edge between b
\* and a: contains_edge and edge_weight agree on both orders in every state,
\* and add_edge(b, a, w) on a present edge a-b replaces its weight without
\* adding an edge. In a directed map add_edge(b, a, w) with a # b leaves
\* contains_edge(a, b) as it was.
C18_EdgeSymmetry ==
    /\ [](ty = "Undirected" =>
            \A a, b \in NodeIds :
                /\ ContainsEdge(a, b) = ContainsEdge(b, a)
                /\ EdgeWeight(a, b) = EdgeWeight(b, a))
    /\ [][\A a, b \in NodeIds :
            (call'.op = "add_edge" /\ call'.a = b /\ call'.b = a) =>
                /\ (ty = "Undirected" /\ ContainsEdge(a, b)) =>
                        /\ call'.ret = EdgeWeight(a, b)
                        /\ call'.ret # None
                        /\ EdgeWeight(a, b)' = Some(call'.w)
                        /\ EdgeCount' = EdgeCount
                        /\ nodes' = nodes
                /\ (ty = "Directed" /\ a # b) =>
                        ContainsEdge(a, b)' = ContainsEdge(a, b)]_vars

\* an undirected map of two edges, one of them between two different nodes
\* and just updated through the order of its endpoints that is not canonical
C18_Witness ==
    /\ ty = "Undirected"
    /\ call.op = "add_edge" /\ call.a > call.b
    /\ call.ret # None /\ call.ret # Some(call.w)
    /\ ContainsEdge(call.b, call.a)
    /\ EdgeWeight(call.b, call.a) = Some(call.w)
    /\ EdgeCount = 2

\* C19: remove_node(n) returns true exactly when n was a node; afterwards n
\* is not a node, the other nodes are all still there, the edge map holds
\* exactly the former edges that do not have n as an endpoint, and no
\* adjacency list mentions n. When n was not a node the nodes, the adjacency
\* lists and the edge map are as they were.
C19_RemoveNode ==
    [][\A n \in NodeIds :
        (call'.op = "remove_node" /\ call'.a = n) =>
            /\ call'.ret = ContainsNode(n)
            /\ IF ContainsNode(n)
               THEN /\ ~ContainsNode(n)'
                    /\ NodeSet' = NodeSet \ {n}
                    /\ EdgeSet' = {e \in EdgeSet : e[1] # n /\ e[2] # n}
                    /\ \A i \in 1..Len(nodes') : \A j \in 1..Len(nodes'[i].v) :
                           nodes'[i].v[j][1] # n
               ELSE /\ nodes' = nodes
                    /\ edges' = edges]_vars

\* remove_node(1) has just returned true on a directed map, and node 2 is
\* left with its self loop only
C19_Witness ==
    /\ ty = "Directed"
    /\ call.op = "remove_node" /\ call.a = 1 /\ call.ret = TRUE
    /\ calls = MaxCalls
    /\ NodeSet = {2}
    /\ EdgeSet = {<<2, 2>>}
    /\ IdxGet(nodes, 2) = <<<<2, "Outgoing">>>>

\* C20: in every reachable state neighbors(a) yields no node twice and yields
\* exactly the nodes b for which the edge a -> b exists (directed) or the edge
\* a - b exists (undirected), a itself for a self loop, and it yields nothing
\* when a is not a node.
C20_Neighbors ==
    \A a \in NodeIds :
        LET nb == Neighbors(a)
        IN /\ \A i, j \in 1..Len(nb) : nb[i] = nb[j] => i = j
           /\ {nb[i] : i \in 1..Len(nb)} = {b \in NodeIds : ContainsEdge(a, b)}
           /\ ~ContainsNode(a) => nb = <<>>

\* a directed map with the edges 2 -> 1 and 1 -> 1: node 1 has an incoming
\* link that neighbors(1) leaves out and a self loop that it yields
C20_Witness ==
    /\ ty = "Directed"
    /\ EdgeSet = {<<2, 1>>, <<1, 1>>}
    /\ Len(IdxGet(nodes, 1)) = 2
    /\ Neighbors(1) = <<1>>
    /\ Neighbors(2) = <<1>>

\* the loop over the connections of node as the relaxation rule states it: a
\* neighbor without a distance entry counts as infinitely far;
\* st is [distances, predecessors, queue]
RECURSIVE RelaxAsStated(_, _, _)
RelaxAsStated(conns, node, st) ==
    IF conns = <<>> THEN st
    ELSE LET e == Head(conns)
             t == IF e.v = node THEN e.u ELSE e.v
             candidate == st.distances[node] + e.w
             improves == t \notin DOMAIN st.distances \/ candidate < st.distances[t]
         IN RelaxAsStated(Tail(conns), node,
                IF improves
                THEN [distances |-> Put(st.distances, t, candidate),
                      predecessors |-> IF intermediates = "Record"
                                       THEN Put(st.predecessors, t, node)
                                       ELSE st.predecessors,
                      queue |-> Append(st.queue, t)]
                ELSE st)

\* C21: an advance after the first handles every connection of the current
\* node in turn: the candidate is dist(current) + cost; when the neighbor has
\* no entry or the candidate is strictly less than its entry, the entry
\* becomes the candidate, the predecessor becomes the current node when
\* recording and the neighbor is inserted into the queue; otherwise nothing
\* changes for that connection. The advance then takes one node off the queue.
C21_RelaxationStep ==
    [][(/\ status = "built" /\ ~init /\ next # NoNode
        /\ next \in DOMAIN distances
        /\ advances' = advances + 1)
       => LET st == RelaxAsStated(Connections(next), next,
                        [distances |-> distances, predecessors |-> predecessors,
                         queue |-> queue])
          IN /\ distances' = st.distances
             /\ predecessors' = st.predecessors
             /\ Len(queue') = Len(PopFront(st.queue)[2])]_vars

\* C22: with non-negative weights the cost of every yielded route is the
\* shortest distance from the source to its target, and no later route to the
\* same target carries a smaller cost.
C22_YieldedCostIsFinal ==
    (Constructed /\ routes # <<>> /\ NonNegative) =>
        LET shortest == ShortestDist(source)
        IN \A i \in 1..Len(routes) :
               /\ routes[i].target \in DOMAIN shortest
               /\ routes[i].cost = shortest[routes[i].target]
               /\ \A j \in (i + 1)..Len(routes) :
                      routes[j].target = routes[i].target =>
                          routes[j].cost >= routes[i].cost

\* the second advance has relaxed a connection of non-negative weight, taken
\* a node off the queue and yielded it
C22_Witness ==
    /\ status = "built" /\ NonNegative
    /\ advances = 2 /\ ret = "Some" /\ Len(routes) = 2
    /\ Len(Connections(source)) > 0
    /\ \E i \in 1..Len(graph.edges) : graph.edges[i].w > 0

\* C23: an advance whose current node was yielded before with the distance it
\* has now, and had its connections relaxed then, is a no-op on the tables: it
\* changes no distance, no ledger entry, and inserts nothing into the queue
\* (it only takes the next node off the queue).
C23_StaleEntryIsNoOp ==
    [][(/\ status = "built" /\ ~init /\ next # NoNode
        /\ next \in DOMAIN distances
        /\ advances' = advances + 1
        /\ \E j \in 1..(Len(routes) - 1) :
               routes[j].target = next /\ routes[j].cost = distances[next])
       => /\ distances' = distances
          /\ predecessors' = predecessors
          /\ queue' = PopFront(queue)[2]]_vars

\* the third advance has processed the source a second time: its connections
\* were relaxed by the second advance already, and the queue ran empty
C23_Witness ==
    /\ status = "built"
    /\ advances = 3 /\ Len(routes) = 2
    /\ routes[1].target = source /\ routes[2].target = source
    /\ routes[1].cost = routes[2].cost
    /\ Len(Connections(source)) > 0
    /\ ret = "None"

\* C24: with recording, after construction and after every advance the ledger
\* has an entry for exactly the nodes that have a distance, every node in the
\* queue, the current node and every yielded node has a ledger entry, and a
\* step that inserts or changes the distance of a node sets the predecessor of
\* that node to the current node in the same step.
C24_LedgerTracksDistances ==
    /\ []((Constructed /\ intermediates = "Record") =>
            /\ DOMAIN predecessors = DOMAIN distances
            /\ \A i \in 1..Len(queue) : queue[i] \in DOMAIN predecessors
            /\ next # NoNode => next \in DOMAIN predecessors
            /\ \A i \in 1..Len(routes) : routes[i].target \in DOMAIN predecessors)
    /\ [][(Constructed /\ intermediates = "Record") =>
            \A n \in DOMAIN distances' :
                (n \notin DOMAIN distances \/ distances'[n] # distances[n]) =>
                    /\ n \in DOMAIN predecessors'
                    /\ predecessors'[n] = next]_vars

\* a recording engine has improved the distance of the source through a
\* negative self loop and recorded the source as its own predecessor
C24_Witness ==
    /\ Constructed /\ intermediates = "Record"
    /\ advances >= 2
    /\ distances[source] < 0
    /\ predecessors[source] = source

\* C25: after a successful construction and before the first advance the
\* distance table holds the source alone, at cost zero, the work queue holds
\* the source alone, and the ledger holds the source alone, with no
\* predecessor, when recording and nothing when discarding.
C25_SeededState ==
    (status = "built" /\ init) =>
        /\ source # NoNode /\ source = asked
        /\ distances = Put(EmptyMap, source, 0)
        /\ queue = <<source>>
        /\ predecessors = IF intermediates = "Record"
                          THEN Put(EmptyMap, source, NoNode)
                          ELSE EmptyMap

\* a discarding engine was just built on a graph of more than one node
C25_Witness ==
    /\ status = "built" /\ init /\ advances = 0
    /\ intermediates = "Discard"
    /\ Cardinality(graph.nodes) > 1
    /\ DOMAIN distances = {source}

\* C26: on a graph without a reachable negative-weight cycle every node
\* reachable from the source becomes the target of a yielded route.
C26_ReachableNodesYielded ==
    (Constructed /\ ~NegativeCycleReachable) ~>
        (\A n \in Reachable(source) : RoutesTo(n) # {})

\* the <<node, cost>> pairs of the walks from the pairs of S over at most k arcs
RECURSIVE WalkCosts(_, _)
WalkCosts(S, k) ==
    IF k = 0 THEN S
    ELSE LET arcs == Arcs
             step == UNION {{<<a[2], p[2] + a[3]>> : a \in {b \in arcs : b[1] = p[1]}} :
                               p \in S}
         IN WalkCosts(S \cup step, k - 1)

\* C27: on a graph without a reachable negative-weight cycle every entry of
\* the distance table is the total weight of a walk from the source to its
\* node, and is not below the shortest distance to that node.
C27_DistancesArePathCosts ==
    (Constructed /\ ~NegativeCycleReachable) =>
        LET shortest == ShortestDist(source)
            walks == WalkCosts({<<source, 0>>}, Cardinality(graph.nodes))
        IN \A v \in DOMAIN distances :
               /\ <<v, distances[v]>> \in walks
               /\ v \in DOMAIN shortest
               /\ distances[v] >= shortest[v]

\* a run that relaxed a connection of the source has ended, on a graph that
\* has a negative edge but no reachable negative cycle
C27_Witness ==
    /\ status = "built" /\ ret = "None"
    /\ ~NonNegative /\ ~NegativeCycleReachable
    /\ Len(Connections(source)) > 0

\* C28: no step removes an entry of the distance table or increases one, and
\* with non-negative edge weights the entry of the source stays at zero.
C28_DistancesOnlyDecrease ==
    /\ [][\A n \in DOMAIN distances :
            /\ n \in DOMAIN distances'
            /\ distances'[n] <= distances[n]]_vars
    /\ []((Constructed /\ NonNegative) =>
            (source \in DOMAIN distances /\ distances[source] = 0))

\* a discarding engine has lowered the distance of the source with every
\* advance after the first
C28_Witness ==
    /\ status = "built" /\ intermediates = "Discard"
    /\ advances = MaxAdvances
    /\ DOMAIN distances = {source}
    /\ distances[source] = 1 - advances

\* the number of predecessor links from current to the entry with no
\* predecessor, or -1 when the walk leaves the ledger or takes more than fuel
\* links
RECURSIVE LedgerSteps(_, _, _)
LedgerSteps(pred, current, fuel) ==
    IF current \notin DOMAIN pred THEN 0 - 1
    ELSE IF pred[current] = NoNode THEN 0
    ELSE IF fuel = 0 THEN 0 - 1
    ELSE LET rest == LedgerSteps(pred, pred[current], fuel - 1)
         IN IF rest < 0 THEN 0 - 1 ELSE rest + 1

\* C29: with recording and no reachable negative-weight cycle the predecessor
\* links form no cycle: from every node of the ledger they lead to the entry
\* with no predecessor in fewer steps than there are nodes, and that entry is
\* the source's and no other node's.
C29_LedgerIsAcyclic ==
    (Constructed /\ intermediates = "Record" /\ ~NegativeCycleReachable) =>
        \A n \in DOMAIN predecessors :
            /\ (predecessors[n] = NoNode) <=> (n = source)
            /\ LET steps == LedgerSteps(predecessors, n, Cardinality(graph.nodes))
               IN steps >= 0 /\ steps < Cardinality(graph.nodes)

\* a recording run has relaxed a self loop of weight zero on the source and
\* ended
C29_Witness ==
    /\ status = "built" /\ intermediates = "Record" /\ ret = "None"
    /\ ~NegativeCycleReachable
    /\ \E i \in 1..Len(Connections(source)) :
           Connections(source)[i].w = 0 /\ Connections(source)[i].u = Connections(source)[i].v
    /\ predecessors[source] = NoNode

\* C30: once an advance has reported the end of the sequence, every later
\* advance reports the end as well, yields nothing and leaves the distance
\* table, the ledger and the work queue as they are.
C30_StaysEnded ==
    [][(ret = "None" /\ advances' = advances + 1) =>
          /\ ret' = "None"
          /\ routes' = routes
          /\ distances' = distances
          /\ predecessors' = predecessors
          /\ queue' = queue]_vars

\* the sequence was advanced again after it had ended
C30_Witness ==
    /\ status = "built" /\ ret = "None"
    /\ advances > Len(routes) + 1
    /\ queue = <<>> /\ next = NoNode

\* ---- GraphMap: the edge iterators and the assertion of remove_edge ------
Directions == {"Outgoing", "Incoming"}

\* neighbors_directed(a, dir), run to its end: the nodes it yields, in order
NeighborsDirected(a, dir) ==
    LET neigh == IF ContainsNode(a) THEN IdxGet(nodes, a) ELSE <<>>
    IN IF IsDirected
       THEN ListNodes(SelectSeq(neigh, LAMBDA elt : elt[2] = dir \/ elt[1] = a))
       ELSE ListNodes(neigh)

\* the branch of the edge iterators that finds no weight under the edge key
Unreachable == <<"unreachable">>

\* the match on self.edges.get(edge_key(a, b)) of the edge iterators
EdgeItem(a, b) ==
    IF IdxHas(edges, EdgeKey(a, b)) THEN <<a, b, IdxGet(edges, EdgeKey(a, b))>>
    ELSE Unreachable

\* edges(a), run to its end
Edges(a) ==
    LET targets == Neighbors(a)
    IN [i \in 1..Len(targets) |-> EdgeItem(a, targets[i])]

\* edges_directed(a, dir), run to its end
EdgesDirected(a, dir) ==
    LET targets == NeighborsDirected(a, dir)
    IN [i \in 1..Len(targets) |->
           IF dir = "Incoming" THEN EdgeItem(targets[i], a) ELSE EdgeItem(a, targets[i])]

\* the condition of the debug assertion of remove_edge(a, b), on the state
\* the call starts in
RemoveEdgeAssertion(a, b) ==
    LET first == RemoveSingleEdge(nodes, a, b, "Outgoing")
        exist1 == first.found
        exist2 == IF a # b THEN RemoveSingleEdge(first.nodes, b, a, "Incoming").found
                  ELSE exist1
        weight == EdgeWeight(a, b)
    IN exist1 = exist2 /\ exist1 = (weight # None)

\* the adjacency list of a node that is present
Links(n) == IdxGet(nodes, n)

\* the edge key an adjacency entry of node n stands for
LinkKey(n, elt) == IF elt[2] = "Outgoing" THEN EdgeKey(n, elt[1]) ELSE EdgeKey(elt[1], n)

\* the positions of the list of n that list the pair with m in direction dir,
\* as remove_single_edge matches them
LinkPositions(n, m, dir) ==
    IF ~ContainsNode(n) THEN {}
    ELSE {i \in 1..Len(Links(n)) :
             IF IsDirected THEN Links(n)[i] = <<m, dir>> ELSE Links(n)[i][1] = m}

\* the adjacency lists and the edge map agree
AdjacencyAgrees ==
    /\ \A i, j \in 1..Len(nodes) : nodes[i].k = nodes[j].k => i = j
    /\ \A i, j \in 1..Len(edges) : edges[i].k = edges[j].k => i = j
    /\ \A p \in 1..Len(nodes) : \A i \in 1..Len(nodes[p].v) :
           /\ ContainsNode(nodes[p].v[i][1])
           /\ IdxHas(edges, LinkKey(nodes[p].k, nodes[p].v[i]))
    /\ \A p \in 1..Len(edges) :
           LET a == edges[p].k[1]
               b == edges[p].k[2]
           IN /\ edges[p].k = EdgeKey(a, b)
              /\ IF a = b
                 THEN Cardinality({i \in 1..Len(nodes) : nodes[i].k = a}) = 1
                      /\ Cardinality({i \in 1..Len(Links(a)) : Links(a)[i][1] = a}) = 1
                 ELSE \/ /\ LinkPositions(a, b, "Outgoing") # {}
                         /\ LinkPositions(b, a, "Incoming") # {}
                      \/ /\ ~IsDirected
                         /\ LinkPositions(a, b, "Incoming") # {}
                         /\ LinkPositions(b, a, "Outgoing") # {}
    /\ \A n \in NodeIds, m \in NodeIds, dir \in Directions :
           Cardinality(LinkPositions(n, m, dir)) <= 1

\* no edge iterator takes its unreachable branch
NoUnreachable ==
    \A a \in NodeIds :
        /\ \A i \in 1..Len(Edges(a)) : Edges(a)[i] # Unreachable
        /\ \A dir \in Directions :
               \A i \in 1..Len(EdgesDirected(a, dir)) : EdgesDirected(a, dir)[i] # Unreachable

\* C31: after any sequence of add_node, add_edge, remove_edge, remove_node
\* and clear the adjacency lists and the edge map agree: every adjacency
\* entry names an existing node and has a weight under the canonical edge
\* key, every edge key is listed by both its endpoints (once for a self
\* loop), and no pair appears twice; so no edge iterator takes its
\* unreachable branch, and the debug assertion of every remove_edge holds.
C31_AdjacencyAndEdgesAgree ==
    /\ [](AdjacencyAgrees /\ NoUnreachable)
    /\ [][\A a \in NodeIds, b \in NodeIds :
             (call'.op = "remove_edge" /\ call'.a = a /\ call'.b = b)
                 => RemoveEdgeAssertion(a, b)]_vars

\* a node with an edge to another node was removed and the self loop of the
\* other node is left, which edges_directed yields for Incoming
C31_Witness ==
    /\ call.op = "remove_node" /\ call.ret = TRUE
    /\ Len(nodes) = 1 /\ Len(edges) = 1
    /\ \E n \in NodeIds : EdgesDirected(n, "Incoming") = <<<<n, n, 2>>>>

\* ---- collect_reports ----------------------------------------------------
\* the values T of the Ok items and the contexts C of the Err items; an Err
\* item holds a report of one context
OkValues == {1, 2}
Contexts == {11, 12}
ResultItems == {Ok(x) : x \in OkValues} \cup {Err(c) : c \in Contexts}

\* the iterators collect_reports is called on: the finite sequences of items
Iterators == UNION {[1..k -> ResultItems] : k \in 0..MaxItems}

\* Container::extend_one of Vec: push
ExtendOne(list, item) == Append(list, item)

\* the report of an Err item, as the list of its contexts
Report(item) == <<item.v>>

\* Extend::extend_one of a report: the contexts of the other report are
\* added after its own
ReportExtendOne(report, other) == report \o other

\* a loop body that keeps the first report as it is
ForItemKeepsFirst(st, item) ==
    CASE ~st.ok /\ ~item.ok -> st
      [] ~st.ok /\ item.ok -> st
      [] st.ok /\ ~item.ok -> Err(Report(item))
      [] st.ok /\ item.ok -> Ok(ExtendOne(st.v, item.v))

\* the body of the for loop: match (&mut state, item)
ForItem(st, item) ==
    CASE ~st.ok /\ ~item.ok -> Err(ReportExtendOne(st.v, Report(item)))
      [] ~st.ok /\ item.ok -> st
      [] st.ok /\ ~item.ok -> Err(Report(item))
      [] st.ok /\ item.ok -> Ok(ExtendOne(st.v, item.v))

\* the call, up to the loop: state = Ok(F::with_capacity(max)) or Ok(F::new()),
\* an empty container either way
CollectReports(iter) ==
    /\ phase = "idle"
    /\ items' = iter
    /\ given' = iter
    /\ state' = Ok(<<>>)
    /\ phase' = "loop"
    /\ UNCHANGED enginevars
    /\ UNCHANGED mapvars

\* one turn of the for loop
ForLoop ==
    /\ phase = "loop"
    /\ items # <<>>
    /\ state' = ForItem(state, Head(items))
    /\ items' = Tail(items)
    /\ UNCHANGED <<given, phase>>
    /\ UNCHANGED enginevars
    /\ UNCHANGED mapvars

\* the iterator is exhausted: state is returned
CollectReturn ==
    /\ phase = "loop"
    /\ items = <<>>
    /\ phase' = "returned"
    /\ UNCHANGED <<items, given, state>>
    /\ UNCHANGED enginevars
    /\ UNCHANGED mapvars

\* no call yet, the engine and GraphMap idle
CollectInit ==
    /\ graph = [nodes |-> {}, edges |-> <<>>, directed |-> TRUE]
    /\ reference = ReferenceTables
    /\ status = "unbuilt"
    /\ queue = <<>>
    /\ source = NoNode
    /\ num_nodes = 0
    /\ init = FALSE
    /\ next = NoNode
    /\ intermediates = "Discard"
    /\ candidate_order = "SmallFirst"
    /\ distances = EmptyMap
    /\ predecessors = EmptyMap
    /\ ret = "none"
    /\ routes = <<>>
    /\ asked = NoNode
    /\ advances = 0
    /\ nodes = <<>>
    /\ edges = <<>>
    /\ ty = "Directed"
    /\ call = NoCall
    /\ calls = 0
    /\ NoReports

CollectNext ==
    \/ \E iter \in Iterators : CollectReports(iter)
    \/ ForLoop
    \/ CollectReturn

SpecCollect == CollectInit /\ [][CollectNext]_vars

\* the values of a sequence of items, in order
RECURSIVE ItemValues(_)
ItemValues(seq) == IF seq = <<>> THEN <<>> ELSE <<Head(seq).v>> \o ItemValues(Tail(seq))

\* C32: collect_reports returns Ok holding every Ok item in iteration order
\* iff no item is an error; if some item is an error it has consumed the
\* whole sequence and returns Err made of the first error extended with
\* every later error in order, without any Ok item; and once the
\* accumulator is an Err it stays an Err.
C32_CollectReports ==
    /\ [](phase = "returned" =>
            /\ state.ok <=> (\A i \in 1..Len(given) : given[i].ok)
            /\ state.ok => state.v = ItemValues(given)
            /\ ~state.ok =>
                   /\ items = <<>>
                   /\ state.v = ItemValues(SelectSeq(given, LAMBDA item : ~item.ok)))
    /\ [][(phase = "loop" /\ ~state.ok) => ~state'.ok]_vars

\* a call on an error, an Ok item and a second error has returned the two
\* errors
C32_Witness ==
    /\ phase = "returned"
    /\ Len(given) = 3
    /\ ~given[1].ok /\ given[2].ok /\ ~given[3].ok
    /\ state = Err(<<given[1].v, given[3].v>>)
====
